---- MODULE Spec2Model ----
(***************************************************************************)
(* Events API: the record normalizer (models/event.py) and the two HTTP    *)
(* handlers (function_app.py), over a table store of raw records.          *)
(*                                                                         *)
(* Text is a sequence of characters.  The date-and-time part of an ISO     *)
(* text ("2025-06-01T10:00:00") is written as one character, IsoBody(t),   *)
(* and the same instant formatted by strftime("%Y%m%d%H%M%S") as another,  *)
(* StrfBody(t); t is the timestamp's calendar reading.                     *)
(* A mapping (a stored entity, a JSON object, the query parameters) is a   *)
(* function whose DOMAIN is the set of keys present.                       *)
(*                                                                         *)
(* A timestamp is naive or aware; every offset in the model is +00:00 and  *)
(* the host's local time is UTC, so t orders naive and aware timestamps    *)
(* alike.  Python refuses to order a naive against an aware timestamp      *)
(* (TypeError), and datetime.now() is naive.                               *)
(*                                                                         *)
(* The table store is the external collaborator: it holds records with     *)
(* unique (PartitionKey, RowKey) and enumerates them in an order the       *)
(* handlers do not rely on.  One invocation runs at a time in the model;   *)
(* invocations share nothing but the store.                                *)
(***************************************************************************)
EXTENDS Integers, Sequences, FiniteSets, TLC

VARIABLES
    table,        \* the table store: the raw records, in enumeration order
    tableExists,  \* whether the table has been created in the store
    connSet,      \* whether AZURE_STORAGE_CONNECTION_STRING is set
    now,          \* datetime.now() (a naive timestamp)
    phase,        \* "idle" between invocations, "responded" after a handler ran
    req,          \* the request of the current invocation
    resp,         \* its response
    nIn,          \* the raw record given to the normalizer
    nOut          \* what the normalizer made of it

vars == <<table, tableExists, connSet, now, phase, req, resp, nIn, nOut>>

----------------------------------------------------------------------------
(* Bounds *)

MaxRecords == 2   \* records in the table store
MaxNow == 2       \* the latest reading of the clock

\* the length the title is cut to in a derived row key
SlugLen == 20

IsoBodies  == <<"T0", "T1", "T2", "T3", "T4", "T5">>
StrfBodies == <<"D0", "D1", "D2", "D3", "D4", "D5">>
IsoBody(t)  == IsoBodies[t + 1]
StrfBody(t) == StrfBodies[t + 1]

UtcOffset == <<"+", "0", "0", ":", "0", "0">>

----------------------------------------------------------------------------
(* Values of the eventDate field: None, a native timestamp, or text *)

NoneVal == [kind |-> "none", s |-> <<>>, t |-> 0, aware |-> FALSE]
DT(t, aware) == [kind |-> "datetime", s |-> <<>>, t |-> t, aware |-> aware]
StrVal(s) == [kind |-> "str", s |-> s, t |-> 0, aware |-> FALSE]

isinstance_datetime(v) == v.kind = "datetime"
isinstance_str(v) == v.kind = "str"

\* Python truthiness of a date value: None and "" are falsy
Truthy(v) ==
    \/ v.kind = "datetime"
    \/ v.kind = "str" /\ v.s # <<>>

\* dict.get(key, default)
Get(d, key, default) == IF key \in DOMAIN d THEN d[key] ELSE default

\* str.replace(old, new) for a one-character old
RECURSIVE Replace(_, _, _)
Replace(s, old, new) ==
    IF s = <<>> THEN <<>>
    ELSE (IF Head(s) = old THEN new ELSE <<Head(s)>>) \o Replace(Tail(s), old, new)

IsIsoBody(c) == \E i \in 1..Len(IsoBodies) : IsoBodies[i] = c
BodyTime(c) == (CHOOSE i \in 1..Len(IsoBodies) : IsoBodies[i] = c) - 1

\* datetime.fromisoformat: a date-time, optionally followed by a UTC offset;
\* anything else raises ValueError
fromisoformat(s) ==
    IF Len(s) >= 1 /\ IsIsoBody(s[1]) /\ Tail(s) = <<>>
    THEN [exc |-> "none", dt |-> DT(BodyTime(s[1]), FALSE)]
    ELSE IF Len(s) >= 1 /\ IsIsoBody(s[1]) /\ Tail(s) = UtcOffset
    THEN [exc |-> "none", dt |-> DT(BodyTime(s[1]), TRUE)]
    ELSE [exc |-> "ValueError", dt |-> NoneVal]

\* datetime.isoformat()
isoformat(d) == <<IsoBody(d.t)>> \o (IF d.aware THEN UtcOffset ELSE <<>>)

\* datetime.strftime("%Y%m%d%H%M%S"): the offset is not printed
strftime(d) == <<StrfBody(d.t)>>

\* event_date.replace('Z', '+00:00') then fromisoformat: None has no replace
ParseDateValue(v) ==
    IF isinstance_str(v) THEN fromisoformat(Replace(v.s, "Z", UtcOffset))
    ELSE [exc |-> "AttributeError", dt |-> NoneVal]

----------------------------------------------------------------------------
(* models/event.py *)

Take(s, n) == SubSeq(s, 1, IF Len(s) < n THEN Len(s) ELSE n)

EVENT == <<"E", "V", "E", "N", "T">>

NullEvent ==
    [title |-> <<>>, description |-> <<>>, location |-> <<>>,
     event_date |-> NoneVal, partition_key |-> <<>>, row_key |-> <<>>]

\* Event._generate_row_key
generate_row_key(event_date, title) ==
    IF ~isinstance_datetime(event_date)
    THEN [exc |-> "AttributeError", key |-> <<>>]
    ELSE [exc |-> "none",
          key |-> strftime(event_date) \o <<"_">>
                    \o Take(Replace(title, " ", <<"_">>), SlugLen)]

\* Event.__init__ without the derivation: the row key is kept as given
NewEvent_verbatim(title, description, location, event_date, partition_key, row_key) ==
    [exc |-> "none",
     ev |-> [title |-> title, description |-> description,
             location |-> location, event_date |-> event_date,
             partition_key |-> partition_key, row_key |-> row_key]]

\* Event.__init__
NewEvent(title, description, location, event_date, partition_key, row_key) ==
    LET rk == IF row_key # <<>>
              THEN [exc |-> "none", key |-> row_key]
              ELSE generate_row_key(event_date, title)
    IN  IF rk.exc # "none"
        THEN [exc |-> rk.exc, ev |-> NullEvent]
        ELSE [exc |-> "none",
              ev |-> [title |-> title, description |-> description,
                      location |-> location, event_date |-> event_date,
                      partition_key |-> partition_key, row_key |-> rk.key]]

\* the lookup with `or` replaced by a presence test: entity[lower] if present
TextField_present(entity, lo, up) ==
    IF lo \in DOMAIN entity THEN entity[lo] ELSE Get(entity, up, <<>>)

\* entity.get(lo) or entity.get(up, '')
TextField(entity, lo, up) ==
    IF lo \in DOMAIN entity /\ entity[lo] # <<>>
    THEN entity[lo]
    ELSE Get(entity, up, <<>>)

\* entity.get('eventDate') or entity.get('EventDate')
DateField(entity) ==
    IF Truthy(Get(entity, "eventDate", NoneVal))
    THEN entity["eventDate"]
    ELSE Get(entity, "EventDate", NoneVal)

\* Event.from_table_entity
from_table_entity(entity) ==
    LET raw == DateField(entity)
        parsed == IF isinstance_str(raw)
                  THEN fromisoformat(Replace(raw.s, "Z", UtcOffset))
                  ELSE [exc |-> "none", dt |-> raw]
    IN  IF parsed.exc # "none"
        THEN [exc |-> parsed.exc, ev |-> NullEvent]
        ELSE NewEvent(TextField(entity, "title", "Title"),
                      TextField(entity, "description", "Description"),
                      TextField(entity, "location", "Location"),
                      parsed.dt,
                      Get(entity, "PartitionKey", EVENT),
                      Get(entity, "RowKey", <<>>))

\* Event.to_dict with eventDate printed in the row-key format
to_dict_strftime(ev) ==
    [title |-> ev.title,
     description |-> ev.description,
     location |-> ev.location,
     eventDate |-> IF isinstance_datetime(ev.event_date)
                   THEN StrVal(strftime(ev.event_date))
                   ELSE ev.event_date,
     partitionKey |-> ev.partition_key,
     rowKey |-> ev.row_key]

\* Event.to_dict
to_dict(ev) ==
    [title |-> ev.title,
     description |-> ev.description,
     location |-> ev.location,
     eventDate |-> IF isinstance_datetime(ev.event_date)
                   THEN StrVal(isoformat(ev.event_date))
                   ELSE ev.event_date,
     partitionKey |-> ev.partition_key,
     rowKey |-> ev.row_key]

----------------------------------------------------------------------------
(* function_app.py: helpers *)

Digits == <<"0", "1", "2", "3", "4", "5", "6", "7", "8", "9">>
IsDigit(c) == \E i \in 1..Len(Digits) : Digits[i] = c
DigitVal(c) == (CHOOSE i \in 1..Len(Digits) : Digits[i] = c) - 1

RECURSIVE DecimalValue(_)
DecimalValue(s) ==
    IF s = <<>> THEN 0
    ELSE 10 * DecimalValue(SubSeq(s, 1, Len(s) - 1)) + DigitVal(s[Len(s)])

\* int(text): an optional sign and decimal digits; anything else raises ValueError
int(s) ==
    LET signed == Len(s) >= 1 /\ s[1] \in {"-", "+"}
        body == IF signed THEN Tail(s) ELSE s
    IN  IF body # <<>> /\ \A i \in 1..Len(body) : IsDigit(body[i])
        THEN [exc |-> "none",
              n |-> IF signed /\ s[1] = "-" THEN 0 - DecimalValue(body)
                    ELSE DecimalValue(body)]
        ELSE [exc |-> "ValueError", n |-> 0]

\* events[:n + 1], a slice one too long
Slice_offByOne(seq, n) ==
    IF n >= 0 THEN Take(seq, n + 1)
    ELSE Take(seq, IF Len(seq) + n + 1 > 0 THEN Len(seq) + n + 1 ELSE 0)

\* events[:n]: a negative n counts from the end
Slice(seq, n) ==
    IF n >= 0 THEN Take(seq, n)
    ELSE Take(seq, IF Len(seq) + n > 0 THEN Len(seq) + n ELSE 0)

LowerChar(c) ==
    CASE c = "T" -> "t" [] c = "R" -> "r" [] c = "U" -> "u" [] c = "E" -> "e"
      [] c = "N" -> "n" [] c = "O" -> "o" [] OTHER -> c

\* str.lower()
lower(s) == [i \in 1..Len(s) |-> LowerChar(s[i])]

\* a >= b on timestamps: comparing an aware with a naive one raises TypeError
DtGe(a, b) ==
    IF a.aware # b.aware THEN [exc |-> "TypeError", ge |-> FALSE]
    ELSE [exc |-> "none", ge |-> a.t >= b.t]

Response(status, error, detail, events, idx) ==
    [status |-> status, error |-> error, detail |-> detail,
     events |-> events, idx |-> idx]

NoResponse == Response(0, "", <<>>, <<>>, <<>>)

ConfigError == "AZURE_STORAGE_CONNECTION_STRING environment variable is not set"

----------------------------------------------------------------------------
(* function_app.py: get_events *)

\* the body of the loop over the entities: whether the entity's event is
\* appended to the list (a failure inside the loop body skips the entity)
ProcessEntity(entity, upcoming_only, t) ==
    LET n == from_table_entity(entity)
        skip == [keep |-> FALSE, ev |-> NullEvent]
        keep == [keep |-> TRUE, ev |-> n.ev]
    IN  IF n.exc # "none" THEN skip
        ELSE IF ~upcoming_only THEN keep
        ELSE IF isinstance_datetime(n.ev.event_date)
        THEN LET c == DtGe(n.ev.event_date, DT(t, FALSE))
             IN  IF c.exc # "none" THEN skip
                 ELSE IF c.ge THEN keep ELSE skip
        ELSE LET parsed == ParseDateValue(n.ev.event_date)
                 c == DtGe(parsed.dt, DT(t, FALSE))
             IN  IF parsed.exc # "none" \/ c.exc # "none" THEN keep
                 ELSE IF c.ge THEN keep ELSE skip

\* the list built by the loop; each event carries the position idx of its
\* record in the enumeration (a history field, not read by the handler)
RECURSIVE CollectEvents(_, _, _, _)
CollectEvents(entities, upcoming_only, t, n) ==
    IF n = 0 THEN <<>>
    ELSE LET before == CollectEvents(entities, upcoming_only, t, n - 1)
             p == ProcessEntity(entities[n], upcoming_only, t)
         IN  IF p.keep THEN Append(before, [ev |-> p.ev, idx |-> n]) ELSE before

\* the sort key of an event
SortKey(ev) ==
    IF isinstance_datetime(ev.event_date)
    THEN [exc |-> "none", dt |-> ev.event_date]
    ELSE ParseDateValue(ev.event_date)

\* insertion before the elements with an equal key
RECURSIVE InsertByKey_unstable(_, _)
InsertByKey_unstable(sorted, item) ==
    IF sorted = <<>> \/ SortKey(sorted[Len(sorted)].ev).dt.t < SortKey(item.ev).dt.t
    THEN Append(sorted, item)
    ELSE Append(InsertByKey_unstable(SubSeq(sorted, 1, Len(sorted) - 1), item),
                sorted[Len(sorted)])

\* insertion of an item into a sorted list, after the elements whose key is
\* not greater than its own
RECURSIVE InsertByKey(_, _)
InsertByKey(sorted, item) ==
    IF sorted = <<>> \/ ~(SortKey(item.ev).dt.t < SortKey(sorted[Len(sorted)].ev).dt.t)
    THEN Append(sorted, item)
    ELSE Append(InsertByKey(SubSeq(sorted, 1, Len(sorted) - 1), item),
                sorted[Len(sorted)])

RECURSIVE StableSort(_)
StableSort(items) ==
    IF items = <<>> THEN <<>>
    ELSE InsertByKey(StableSort(SubSeq(items, 1, Len(items) - 1)), items[Len(items)])

\* events.sort(key=...): the keys are computed first, for every element; the
\* first failing key raises; keys that cannot be ordered raise TypeError
SortEvents(items) ==
    LET bad == {i \in 1..Len(items) : SortKey(items[i].ev).exc # "none"}
        first == CHOOSE i \in bad : \A j \in bad : i <= j
    IN  IF bad # {}
        THEN [exc |-> SortKey(items[first].ev).exc, items |-> <<>>]
        ELSE IF \E i, j \in 1..Len(items) :
                    SortKey(items[i].ev).dt.aware # SortKey(items[j].ev).dt.aware
        THEN [exc |-> "TypeError", items |-> <<>>]
        ELSE [exc |-> "none", items |-> StableSort(items)]

\* the limit step
ApplyLimit(items, params) ==
    IF "limit" \in DOMAIN params /\ params["limit"] # <<>>
    THEN LET limit_int == int(params["limit"])
         IN  IF limit_int.exc = "none" THEN Slice(items, limit_int.n) ELSE items
    ELSE items

\* get_events
get_events(params, conn, exists, entities, t) ==
    LET upcoming_only == lower(Get(params, "upcoming", <<>>)) = <<"t", "r", "u", "e">>
        items == CollectEvents(entities, upcoming_only, t, Len(entities))
        sorted == SortEvents(items)
        limited == ApplyLimit(sorted.items, params)
    IN  IF ~conn THEN Response(500, ConfigError, <<>>, <<>>, <<>>)
        ELSE IF ~exists THEN Response(404, "Events table not found", <<>>, <<>>, <<>>)
        ELSE IF sorted.exc = "ValueError"
        THEN Response(500, "Invalid isoformat string", <<>>, <<>>, <<>>)
        ELSE IF sorted.exc # "none"
        THEN Response(500, "Internal server error", <<>>, <<>>, <<>>)
        ELSE Response(200, "", <<>>,
                      [i \in 1..Len(limited) |-> to_dict(limited[i].ev)],
                      [i \in 1..Len(limited) |-> limited[i].idx])

----------------------------------------------------------------------------
(* function_app.py: get_event_by_id *)

\* table_client.get_entity: the positions of the record with these keys
Matches(entities, partition_key, row_key) ==
    {i \in 1..Len(entities) :
        /\ Get(entities[i], "PartitionKey", <<>>) = partition_key
        /\ Get(entities[i], "RowKey", <<>>) = row_key}

get_event_by_id(route_params, conn, exists, entities) ==
    LET event_id == Get(route_params, "id", <<>>)
        found == Matches(entities, EVENT, event_id)
        n == from_table_entity(entities[CHOOSE i \in found : TRUE])
    IN  IF event_id = <<>>
        THEN Response(400, "Event ID is required", <<>>, <<>>, <<>>)
        ELSE IF ~conn THEN Response(500, ConfigError, <<>>, <<>>, <<>>)
        ELSE IF ~exists \/ found = {}
        THEN Response(404, "Event with ID not found", event_id, <<>>, <<>>)
        ELSE IF n.exc = "ValueError"
        THEN Response(500, "Invalid isoformat string", <<>>, <<>>, <<>>)
        ELSE IF n.exc # "none"
        THEN Response(500, "Internal server error", <<>>, <<>>, <<>>)
        ELSE Response(200, "", <<>>, <<to_dict(n.ev)>>, <<>>)

----------------------------------------------------------------------------
(* The table store and the requests *)

\* the mappings with `key` missing or bound to one of Vals
Opt(key, Vals) == {<<>>} \cup {key :> v : v \in Vals}

RowKeys == {<<"r", Digits[i + 1]>> : i \in 1..MaxRecords}

StoredDates ==
    {StrVal(<<IsoBody(0)>>), StrVal(<<IsoBody(2)>>), StrVal(<<IsoBody(2), "Z">>),
     StrVal(<<"x">>), DT(0, TRUE)}

\* a stored record always has its keys; the eventDate property may be missing
StoredRecords ==
    {("PartitionKey" :> EVENT) @@ ("RowKey" :> k) @@ ("title" :> <<"a">>) @@ d :
        k \in RowKeys, d \in Opt("eventDate", StoredDates)}

ListParams ==
    {l @@ u :
        l \in Opt("limit", {<<"0">>, <<"1">>, <<"2">>, <<"a", "b", "c">>, <<"-", "1">>}),
        u \in Opt("upcoming", {<<"T", "r", "u", "e">>, <<"n", "o">>})}

RouteParams == Opt("id", {<<>>, <<"z">>} \cup RowKeys)

\* the normalizer has not been applied
NotRun == [done |-> FALSE, first |-> [exc |-> "none", ev |-> NullEvent],
           second |-> [exc |-> "none", ev |-> NullEvent]]

Init ==
    /\ table = <<>>
    /\ tableExists = FALSE
    /\ connSet \in BOOLEAN
    /\ now = 1
    /\ phase = "idle"
    /\ req = [op |-> "none", params |-> <<>>]
    /\ resp = NoResponse
    /\ nIn = <<>>
    /\ nOut = NotRun

CreateTable ==
    /\ phase = "idle"
    /\ ~tableExists
    /\ tableExists' = TRUE
    /\ UNCHANGED <<table, connSet, now, phase, req, resp, nIn, nOut>>

StorePut(r) ==
    /\ phase = "idle"
    /\ tableExists
    /\ Len(table) < MaxRecords
    /\ Matches(table, r["PartitionKey"], r["RowKey"]) = {}
    /\ table' = Append(table, r)
    /\ UNCHANGED <<tableExists, connSet, now, phase, req, resp, nIn, nOut>>

Tick ==
    /\ phase = "idle"
    /\ now < MaxNow
    /\ now' = now + 1
    /\ UNCHANGED <<table, tableExists, connSet, phase, req, resp, nIn, nOut>>

GetEvents(params) ==
    /\ phase = "idle"
    /\ phase' = "responded"
    /\ req' = [op |-> "list", params |-> params]
    /\ resp' = get_events(params, connSet, tableExists, table, now)
    /\ UNCHANGED <<table, tableExists, connSet, now, nIn, nOut>>

GetEventById(route_params) ==
    /\ phase = "idle"
    /\ phase' = "responded"
    /\ req' = [op |-> "get", params |-> route_params]
    /\ resp' = get_event_by_id(route_params, connSet, tableExists, table)
    /\ UNCHANGED <<table, tableExists, connSet, now, nIn, nOut>>

Return ==
    /\ phase = "responded"
    /\ phase' = "idle"
    /\ req' = [op |-> "none", params |-> <<>>]
    /\ resp' = NoResponse
    /\ UNCHANGED <<table, tableExists, connSet, now, nIn, nOut>>

Next ==
    \/ CreateTable
    \/ \E r \in StoredRecords : StorePut(r)
    \/ Tick
    \/ \E params \in ListParams : GetEvents(params)
    \/ \E route_params \in RouteParams : GetEventById(route_params)
    \/ Return

Spec == Init /\ [][Next]_vars

----------------------------------------------------------------------------
(* Properties of the list endpoint (Spec) *)

Range(f) == {f[i] : i \in DOMAIN f}
Min(a, b) == IF a < b THEN a ELSE b

Listed == phase = "responded" /\ req.op = "list"
StoreUp == connSet /\ tableExists
UpcomingAsked ==
    /\ "upcoming" \in DOMAIN req.params
    /\ req.params["upcoming"] \in {<<"t", "r", "u", "e">>, <<"T", "r", "u", "e">>}
NoLimit == "limit" \notin DOMAIN req.params

\* the one-digit decimal texts, and the number each one writes
IsNaturalText(s) == Len(s) = 1 /\ IsDigit(s[1])
NaturalOf(s) == DigitVal(s[1])

\* the normalization of the i-th enumerated record
Norm(i) == from_table_entity(table[i])
HasTimestamp(i) == Norm(i).exc = "none" /\ isinstance_datetime(Norm(i).ev.event_date)

\* the events that remain after normalization and the optional filter
Remaining ==
    CollectEvents(table, UpcomingAsked, now, Len(table))

\* the timestamp a serialized event carries
JsonDate(j) == fromisoformat(j.eventDate.s).dt

\* C1: with the store reachable, a record that cannot be processed is left
\* out and the list request still answers 200.
C1_BadRecordNeverFailsList ==
    (Listed /\ StoreUp) =>
        /\ resp.status = 200
        /\ \A i \in Range(resp.idx) : HasTimestamp(i)

\* C3: with upcoming=true and no limit, a record with a timestamp (native or
\* parsed from text, a trailing Z included) is listed exactly when its date
\* is at or after the current time.
C3_UpcomingKeepsExactlyFuture ==
    (Listed /\ UpcomingAsked /\ NoLimit /\ resp.status = 200) =>
        \A i \in 1..Len(table) :
            HasTimestamp(i) =>
                (i \in Range(resp.idx) <=> Norm(i).ev.event_date.t >= now)

\* C4: a limit that is the decimal text of N >= 0 leaves exactly min(N, M) of
\* the M remaining events, and no event left out comes before a kept one in
\* the date-ascending order (enumeration order among equal dates).
C4_LimitKeepsEarliest ==
    (Listed /\ resp.status = 200 /\ "limit" \in DOMAIN req.params
            /\ IsNaturalText(req.params["limit"])) =>
        LET N == NaturalOf(req.params["limit"])
            M == Len(Remaining)
            kept == Range(resp.idx)
        IN  /\ Len(resp.events) = Min(N, M)
            /\ Cardinality(kept) = Min(N, M)
            /\ kept \subseteq {Remaining[k].idx : k \in 1..M}
            /\ \A k \in 1..M : Remaining[k].idx \notin kept =>
                  \A i \in kept :
                      LET out == Remaining[k].idx
                      IN  /\ Norm(i).ev.event_date.t <= Norm(out).ev.event_date.t
                          /\ Norm(i).ev.event_date.t = Norm(out).ev.event_date.t
                                => i < out

C4_Witness ==
    /\ Listed /\ resp.status = 200
    /\ "limit" \in DOMAIN req.params /\ req.params["limit"] = <<"1">>
    /\ Len(Remaining) = 2
    /\ resp.idx = <<2>>

\* C5: a limit that is not the text of a non-negative integer is ignored: the
\* response is the one the same request gets without a limit.
C5_InvalidLimitIgnored ==
    (Listed /\ "limit" \in DOMAIN req.params
            /\ req.params["limit"] \in {<<"a", "b", "c">>, <<"-", "1">>}) =>
        resp = get_events([k \in DOMAIN req.params \ {"limit"} |-> req.params[k]],
                          connSet, tableExists, table, now)

\* C6: a 200 list response is in ascending eventDate order, and events with
\* equal eventDate are in the order their records were enumerated.
C6_AscendingAndStable ==
    (Listed /\ resp.status = 200) =>
        /\ \A i \in 1..Len(resp.events) :
              /\ resp.idx[i] \in 1..Len(table)
              /\ Norm(resp.idx[i]).exc = "none"
              /\ resp.events[i] = to_dict(Norm(resp.idx[i]).ev)
              /\ isinstance_str(resp.events[i].eventDate)
              /\ fromisoformat(resp.events[i].eventDate.s).exc = "none"
        /\ \A i, j \in 1..Len(resp.events) :
              i < j =>
                /\ JsonDate(resp.events[i]).aware = JsonDate(resp.events[j]).aware
                /\ JsonDate(resp.events[i]).t <= JsonDate(resp.events[j]).t
                /\ JsonDate(resp.events[i]).t = JsonDate(resp.events[j]).t
                      => resp.idx[i] < resp.idx[j]

C6_Witness ==
    /\ Listed /\ resp.status = 200
    /\ Len(table) = 2
    /\ Norm(1).ev.event_date.t > Norm(2).ev.event_date.t
    /\ resp.idx = <<2, 1>>

\* C7: with upcoming=true, a normalized event whose eventDate is no timestamp
\* and cannot be parsed as one is kept, and is in the 200 response.
C7_UncomparableDateRetained ==
    (Listed /\ StoreUp /\ UpcomingAsked /\ NoLimit) =>
        \A i \in 1..Len(table) :
            (Norm(i).exc = "none" /\ ~isinstance_datetime(Norm(i).ev.event_date)) =>
                /\ resp.status = 200
                /\ i \in Range(resp.idx)

----------------------------------------------------------------------------
(* Properties of the get-by-id endpoint (Spec) *)

\* C10: a record that is found but fails normalization answers 500 with the
\* generic body; the failure text is not in the body.
C10_NormalizationFailureIsGeneric ==
    (phase = "responded" /\ req.op = "get" /\ connSet /\ tableExists
        /\ "id" \in DOMAIN req.params /\ req.params["id"] # <<>>) =>
        \A i \in Matches(table, EVENT, req.params["id"]) :
            Norm(i).exc # "none" =>
                /\ resp.status = 500
                /\ resp.error = "Internal server error"

----------------------------------------------------------------------------
(* Normalizer inputs *)

LongTitle ==
    <<"a", " ", "b", "c", "d", "e", "f", "g", "h", "i", "j",
      "k", "l", "m", "n", "o", "p", "q", "r", "s", "t", "u">>

NormRecords ==
    {a @@ b @@ c @@ d @@ l @@ m @@ e @@ f @@ g @@ h :
        a \in Opt("title", {<<>>, <<"a", " ", "b">>, LongTitle}),
        b \in Opt("Title", {<<"T">>}),
        c \in Opt("description", {<<>>, <<"d">>}),
        d \in Opt("Description", {<<"D">>}),
        l \in Opt("location", {<<>>, <<"l">>}),
        m \in Opt("Location", {<<"L">>}),
        e \in Opt("eventDate",
                  {StrVal(<<>>), StrVal(<<IsoBody(1)>>), StrVal(<<IsoBody(1), "Z">>),
                   StrVal(<<"x">>), DT(2, TRUE)}),
        f \in Opt("EventDate", {StrVal(<<IsoBody(3)>> \o UtcOffset)}),
        g \in Opt("PartitionKey", {EVENT, <<"O">>}),
        h \in Opt("RowKey", {<<>>, <<"r", "1">>})}

NormInit ==
    /\ table = <<>>
    /\ tableExists = FALSE
    /\ connSet = FALSE
    /\ now = 1
    /\ phase = "idle"
    /\ req = [op |-> "none", params |-> <<>>]
    /\ resp = NoResponse
    /\ nIn \in NormRecords
    /\ nOut = NotRun

\* normalize the record, then normalize the serialization of the result
Normalize ==
    /\ ~nOut.done
    /\ LET first == from_table_entity(nIn)
       IN  nOut' = [done |-> TRUE,
                    first |-> first,
                    second |-> IF first.exc = "none"
                               THEN from_table_entity(to_dict(first.ev))
                               ELSE first]
    /\ UNCHANGED <<table, tableExists, connSet, now, phase, req, resp, nIn>>

NormNext == Normalize

NormSpec == NormInit /\ [][NormNext]_vars

----------------------------------------------------------------------------
(* Properties of the normalizer (NormSpec) *)

Has(key) == key \in DOMAIN nIn
Normalized == nOut.done /\ nOut.first.exc = "none"

\* the row key derived from a timestamp and a title, stated character by character
IsDerivedKey(key, d, title) ==
    LET n == IF Len(title) < SlugLen THEN Len(title) ELSE SlugLen
    IN  /\ Len(key) = n + 2
        /\ key[1] = StrfBody(d.t)
        /\ key[2] = "_"
        /\ \A i \in 1..n : key[i + 2] = (IF title[i] = " " THEN "_" ELSE title[i])

\* the raw value the date is read from when empty values count as missing
DateSource ==
    IF Has("eventDate") /\ nIn["eventDate"] # StrVal(<<>>) THEN nIn["eventDate"]
    ELSE IF Has("EventDate") THEN nIn["EventDate"]
    ELSE NoneVal

\* the text field when empty values count as missing
TextSource(lo, up) ==
    IF Has(lo) /\ nIn[lo] # <<>> THEN nIn[lo]
    ELSE IF Has(up) THEN nIn[up]
    ELSE <<>>

\* C2 (as claimed): for every valid raw record, serializing the normalization of
\* the serialized normalization gives the same JSON object on all six keys.
C2_RoundTripAllKeys ==
    (Normalized /\ isinstance_datetime(nOut.first.ev.event_date)) =>
        /\ nOut.second.exc = "none"
        /\ to_dict(nOut.second.ev) = to_dict(nOut.first.ev)

\* C2 (amended): for a record whose eventDate normalizes to a timestamp, the
\* round trip succeeds and keeps title, description, location and eventDate;
\* its partitionKey is "EVENT" and its rowKey is the key derived from date and
\* title, whatever PartitionKey and RowKey the record carried.
C2_RoundTripKeepsContent ==
    (Normalized /\ isinstance_datetime(nOut.first.ev.event_date)) =>
        LET j1 == to_dict(nOut.first.ev)
            j2 == to_dict(nOut.second.ev)
        IN  /\ nOut.second.exc = "none"
            /\ j2.title = j1.title
            /\ j2.description = j1.description
            /\ j2.location = j1.location
            /\ j2.eventDate = j1.eventDate
            /\ j2.partitionKey = EVENT
            /\ IsDerivedKey(j2.rowKey, nOut.first.ev.event_date, j1.title)

C2_Witness ==
    /\ Normalized
    /\ Has("PartitionKey") /\ nIn["PartitionKey"] # EVENT
    /\ Has("RowKey") /\ nIn["RowKey"] # <<>>
    /\ nOut.first.ev.event_date = DT(1, TRUE)
    /\ nOut.second.exc = "none"
    /\ to_dict(nOut.second.ev) # to_dict(nOut.first.ev)

\* C8 (as claimed): when a record holds both the lowercase-camel key and the
\* capitalized key of a field, the normalized value is the one stored under the
\* lowercase-camel key, whatever it is.
C8_LowerKeyAlwaysWins ==
    Normalized =>
        /\ Has("title") => nOut.first.ev.title = nIn["title"]
        /\ Has("description") => nOut.first.ev.description = nIn["description"]
        /\ Has("location") => nOut.first.ev.location = nIn["location"]
        /\ (Has("eventDate") /\ Has("EventDate") /\ isinstance_str(nIn["eventDate"])) =>
               /\ isinstance_datetime(nOut.first.ev.event_date)
               /\ isoformat(nOut.first.ev.event_date)
                      = Replace(nIn["eventDate"].s, "Z", UtcOffset)

\* C8 (amended): the lowercase-camel key wins when its value is non-empty; a
\* missing or empty lowercase-camel value gives way to the capitalized key, and
\* to the empty text (no date) when that one is missing too.
C8_LowerKeyWinsUnlessEmpty ==
    nOut.done =>
        LET src == DateSource
        IN  /\ nOut.first.exc = "none" =>
                /\ nOut.first.ev.title = TextSource("title", "Title")
                /\ nOut.first.ev.description = TextSource("description", "Description")
                /\ nOut.first.ev.location = TextSource("location", "Location")
                /\ isinstance_datetime(src) => nOut.first.ev.event_date = src
                /\ src = NoneVal => nOut.first.ev.event_date = NoneVal
                /\ isinstance_str(src) =>
                       isoformat(nOut.first.ev.event_date)
                          = Replace(src.s, "Z", UtcOffset)
            /\ nOut.first.exc = "ValueError" => isinstance_str(src)

C8_Witness ==
    /\ Normalized
    /\ Has("title") /\ Has("Title") /\ nIn["title"] = <<>>
    /\ Has("description") /\ Has("Description") /\ nIn["description"] # <<>>
    /\ Has("eventDate") /\ Has("EventDate") /\ nIn["eventDate"] = StrVal(<<>>)
    /\ nOut.first.ev.title = nIn["Title"]
    /\ nOut.first.ev.description = nIn["description"]

\* C9 (as claimed): the normalized rowKey is the record's RowKey verbatim, and
\* the empty text when the record has none; it is never derived.
C9_RowKeyVerbatim ==
    Normalized => nOut.first.ev.row_key = Get(nIn, "RowKey", <<>>)

\* C9 (amended): a non-empty RowKey is taken verbatim; with RowKey missing or
\* empty the rowKey is derived from the timestamp and the title, and the
\* normalization fails when there is no timestamp to derive it from.
C9_RowKeyVerbatimOrDerived ==
    nOut.done =>
        IF Has("RowKey") /\ nIn["RowKey"] # <<>>
        THEN nOut.first.exc = "none" => nOut.first.ev.row_key = nIn["RowKey"]
        ELSE /\ nOut.first.exc = "none" =>
                    /\ isinstance_datetime(nOut.first.ev.event_date)
                    /\ IsDerivedKey(nOut.first.ev.row_key,
                                    nOut.first.ev.event_date, nOut.first.ev.title)
             /\ DateSource = NoneVal => nOut.first.exc = "AttributeError"

C9_Witness ==
    /\ Normalized
    /\ ~Has("RowKey")
    /\ nOut.first.ev.title = LongTitle
    /\ Len(nOut.first.ev.row_key) = SlugLen + 2

====
